---- MODULE Spec2Model ----
(***************************************************************************)
(* Lexical analyzer generator: regex -> postfix -> Thompson NFA ->         *)
(* combined NFA -> subset-construction DFA -> emitted scanner.             *)
(* Characters are one-character strings; a string is a sequence of them.   *)
(***************************************************************************)
EXTENDS Integers, Sequences, FiniteSets, TLC

\* ------------------------------------------------------------------ bounds
MaxCalls == 2
MaxInput == 4
MaxRegexLen == 3
MaxWord == 3
MaxLoadInput == 2
MaxClosureSet == 2

\* ------------------------------------------------------------- characters
\* '\0', the label of an epsilon transition
Epsilon == "eps"

\* the characters of the model in the order of their byte values
\* (std::set<char> and std::map iterate in this order)
CharOrder == <<"\n", " ", "(", ")", "*", "+", "-", ".", "/", ";", "<", "=", ">", "a", "b", "c", "{", "|", "}">>

\* token names in the order std::map<string,string> iterates them
NameOrder ==
    <<"ASSIGN", "DIVIDE", "GREATER_THAN", "LBRACE", "LESS_THAN", "LPAREN", "MINUS",
      "MULTIPLY", "PLUS", "RBRACE", "RPAREN", "SEMICOLON", "T1", "T2">>

EmptyMap == [x \in {} |-> 0]

RECURSIVE SortedSeq(_)
SortedSeq(S) ==
    IF S = {} THEN <<>>
    ELSE LET m == CHOOSE x \in S : \A y \in S : x <= y
         IN <<m>> \o SortedSeq(S \ {m})

SeqsUpTo(S, n) == UNION {[1..k -> S] : k \in 0..n}

\* ------------------------------------------------------------ RegexParser
RECURSIVE validScan(_, _, _)
validScan(regex, k, parenCount) ==
    IF k > Len(regex) THEN parenCount = 0
    ELSE LET p1 == IF regex[k] = "(" THEN parenCount + 1 ELSE parenCount
             p2 == IF regex[k] = ")" THEN p1 - 1 ELSE p1
         IN IF p2 < 0 THEN FALSE ELSE validScan(regex, k + 1, p2)

isValidRegex(regex) == validScan(regex, 1, 0)

getPrecedence(op) ==
    IF op = "*" THEN 3
    ELSE IF op = "." THEN 2
    ELSE IF op = "|" THEN 1
    ELSE 0

isOperator(c) == c = "*" \/ c = "|" \/ c = "."

\* first loop of infixToPostfix: add the explicit concatenation operator
RECURSIVE addConcat(_, _)
addConcat(regex, k) ==
    IF k > Len(regex) THEN <<>>
    ELSE LET c == regex[k]
             ins == /\ k + 1 <= Len(regex)
                    /\ c # "(" /\ c # "|"
                    /\ regex[k + 1] # ")" /\ regex[k + 1] # "|" /\ regex[k + 1] # "*"
         IN <<c>> \o (IF ins THEN <<".">> ELSE <<>>) \o addConcat(regex, k + 1)

\* st = [result, opStack]; the top of opStack is its last element
RECURSIVE popToParen(_)
popToParen(st) ==
    IF st.opStack # <<>> /\ st.opStack[Len(st.opStack)] # "("
    THEN popToParen([result |-> Append(st.result, st.opStack[Len(st.opStack)]),
                     opStack |-> SubSeq(st.opStack, 1, Len(st.opStack) - 1)])
    ELSE st

RECURSIVE popPrec(_, _)
popPrec(st, c) ==
    IF /\ st.opStack # <<>>
       /\ st.opStack[Len(st.opStack)] # "("
       /\ getPrecedence(st.opStack[Len(st.opStack)]) >= getPrecedence(c)
    THEN popPrec([result |-> Append(st.result, st.opStack[Len(st.opStack)]),
                  opStack |-> SubSeq(st.opStack, 1, Len(st.opStack) - 1)], c)
    ELSE st

RECURSIVE popAll(_)
popAll(st) ==
    IF st.opStack # <<>>
    THEN popAll([result |-> Append(st.result, st.opStack[Len(st.opStack)]),
                 opStack |-> SubSeq(st.opStack, 1, Len(st.opStack) - 1)])
    ELSE st

\* one iteration of the second loop of infixToPostfix
shuntStep(st, c) ==
    IF ~isOperator(c) /\ c # "(" /\ c # ")"
    THEN [st EXCEPT !.result = Append(@, c)]
    ELSE IF c = "("
    THEN [st EXCEPT !.opStack = Append(@, c)]
    ELSE IF c = ")"
    THEN LET p == popToParen(st)
         IN IF p.opStack # <<>>
            THEN [p EXCEPT !.opStack = SubSeq(@, 1, Len(@) - 1)]
            ELSE p
    ELSE LET p == popPrec(st, c)
         IN [p EXCEPT !.opStack = Append(@, c)]

RECURSIVE shunt(_, _, _)
shunt(processed, k, st) ==
    IF k > Len(processed) THEN popAll(st).result
    ELSE shunt(processed, k + 1, shuntStep(st, processed[k]))

infixToPostfix(regex) ==
    shunt(addConcat(regex, 1), 1, [result |-> <<>>, opStack |-> <<>>])

\* -------------------------------------------------------------------- NFA
NewNFA ==
    [states |-> <<>>, transitions |-> <<>>, startState |-> 0,
     acceptingStates |-> {}, stateCounter |-> 0]

Transition(from, to, sym) == [fromState |-> from, toState |-> to, symbol |-> sym]

NFAaddState(nfa, stateId, isAccepting) ==
    [nfa EXCEPT !.states = Append(@, [id |-> stateId, isAccepting |-> isAccepting]),
                !.acceptingStates = IF isAccepting THEN @ \cup {stateId} ELSE @]

NFAaddTransition(nfa, from, to, sym) ==
    [nfa EXCEPT !.transitions = Append(@, Transition(from, to, sym))]

\* addState for every state of src, renumbered by offset; keepAccepting tells
\* whether the state's own isAccepting flag or false is passed
addStatesFrom(result, src, k, offset, keepAccepting) ==
    LET copied == [j \in 1..(Len(src.states) - k + 1) |->
                      [id |-> src.states[j + k - 1].id + offset,
                       isAccepting |-> keepAccepting /\ src.states[j + k - 1].isAccepting]]
    IN [result EXCEPT
           !.states = @ \o copied,
           !.acceptingStates = @ \cup {copied[j].id :
                                         j \in {n \in DOMAIN copied : copied[n].isAccepting}}]

\* addTransition for every transition of src, renumbered by offset
addTransitionsFrom(result, src, k, offset) ==
    [result EXCEPT !.transitions = @ \o
        [j \in 1..(Len(src.transitions) - k + 1) |->
            Transition(src.transitions[j + k - 1].fromState + offset,
                       src.transitions[j + k - 1].toState + offset,
                       src.transitions[j + k - 1].symbol)]]

\* epsilon transition from every state of accSeq (+offset) to target
linkAccepting(result, accSeq, k, offset, target) ==
    [result EXCEPT !.transitions = @ \o
        [j \in 1..(Len(accSeq) - k + 1) |->
            Transition(accSeq[j + k - 1] + offset, target, Epsilon)]]

fromSymbol(sym) ==
    [NFAaddTransition(NFAaddState(NFAaddState(NewNFA, 0, FALSE), 1, TRUE), 0, 1, sym)
        EXCEPT !.startState = 0, !.stateCounter = 2]

concatenate(nfa1, nfa2) ==
    LET offset == Len(nfa1.states)
        r1 == addStatesFrom(NewNFA, nfa1, 1, 0, FALSE)
        r2 == addStatesFrom(r1, nfa2, 1, offset, TRUE)
        r3 == addTransitionsFrom(r2, nfa1, 1, 0)
        r4 == linkAccepting(r3, SortedSeq(nfa1.acceptingStates), 1, 0,
                            nfa2.startState + offset)
        r5 == addTransitionsFrom(r4, nfa2, 1, offset)
    IN [r5 EXCEPT !.startState = nfa1.startState,
                  !.stateCounter = Len(nfa1.states) + Len(nfa2.states)]

union_op(nfa1, nfa2) ==
    LET newStart == 0
        offset1 == 1
        offset2 == offset1 + Len(nfa1.states)
        newAccept == offset2 + Len(nfa2.states)
        r0 == [NFAaddState(NewNFA, newStart, FALSE) EXCEPT !.startState = newStart]
        r1 == addStatesFrom(r0, nfa1, 1, offset1, FALSE)
        r2 == addStatesFrom(r1, nfa2, 1, offset2, FALSE)
        r3 == NFAaddState(r2, newAccept, TRUE)
        r4 == NFAaddTransition(r3, newStart, nfa1.startState + offset1, Epsilon)
        r5 == NFAaddTransition(r4, newStart, nfa2.startState + offset2, Epsilon)
        r6 == addTransitionsFrom(r5, nfa1, 1, offset1)
        r7 == addTransitionsFrom(r6, nfa2, 1, offset2)
        r8 == linkAccepting(r7, SortedSeq(nfa1.acceptingStates), 1, offset1, newAccept)
        r9 == linkAccepting(r8, SortedSeq(nfa2.acceptingStates), 1, offset2, newAccept)
    IN [r9 EXCEPT !.stateCounter = newAccept + 1]

\* the last loop of kleeneStar: two epsilon transitions per accepting state
linkStar(result, accSeq, k, offset, back, newAccept) ==
    [result EXCEPT !.transitions = @ \o
        [j \in 1..(2 * (Len(accSeq) - k + 1)) |->
            Transition(accSeq[(j + 1) \div 2 + k - 1] + offset,
                       IF j % 2 = 1 THEN back ELSE newAccept, Epsilon)]]

kleeneStar(nfa) ==
    LET newStart == 0
        offset == 1
        newAccept == offset + Len(nfa.states)
        r0 == [NFAaddState(NewNFA, newStart, FALSE) EXCEPT !.startState = newStart]
        r1 == addStatesFrom(r0, nfa, 1, offset, FALSE)
        r2 == NFAaddState(r1, newAccept, TRUE)
        r3 == NFAaddTransition(r2, newStart, nfa.startState + offset, Epsilon)
        r4 == NFAaddTransition(r3, newStart, newAccept, Epsilon)
        r5 == addTransitionsFrom(r4, nfa, 1, offset)
        r6 == linkStar(r5, SortedSeq(nfa.acceptingStates), 1, offset,
                       nfa.startState + offset, newAccept)
    IN [r6 EXCEPT !.stateCounter = newAccept + 1]

\* one iteration of the loop of fromRegex; the top of nfaStack is its last element
thompsonStep(nfaStack, c) ==
    LET n == Len(nfaStack)
    IN IF c = "*"
       THEN IF n = 0 THEN nfaStack
            ELSE Append(SubSeq(nfaStack, 1, n - 1), kleeneStar(nfaStack[n]))
       ELSE IF c = "|"
       THEN IF n < 2 THEN nfaStack
            ELSE Append(SubSeq(nfaStack, 1, n - 2), union_op(nfaStack[n - 1], nfaStack[n]))
       ELSE IF c = "."
       THEN IF n < 2 THEN nfaStack
            ELSE Append(SubSeq(nfaStack, 1, n - 2), concatenate(nfaStack[n - 1], nfaStack[n]))
       ELSE Append(nfaStack, fromSymbol(c))

RECURSIVE thompson(_, _, _)
thompson(postfix, k, nfaStack) ==
    IF k > Len(postfix) THEN nfaStack
    ELSE thompson(postfix, k + 1, thompsonStep(nfaStack, postfix[k]))

stackResult(nfaStack) ==
    IF nfaStack = <<>> THEN NewNFA ELSE nfaStack[Len(nfaStack)]

fromRegex(regex) == stackResult(thompson(infixToPostfix(regex), 1, <<>>))

\* the scan follows every transition of the popped state, epsilon or not
closureScanAnySymbol(nfa, current, k, cs) ==
    LET leaves(j) == nfa.transitions[j].fromState = current
        hits == SelectSeq([j \in 1..Len(nfa.transitions) |-> j],
                    LAMBDA j : /\ j >= k
                               /\ leaves(j)
                               /\ nfa.transitions[j].toState \notin cs.closure
                               /\ \A m \in k..(j - 1) :
                                     ~(/\ leaves(m)
                                       /\ nfa.transitions[m].toState =
                                              nfa.transitions[j].toState))
        pushed == [n \in 1..Len(hits) |-> nfa.transitions[hits[n]].toState]
    IN [closure |-> cs.closure \cup {pushed[n] : n \in DOMAIN pushed},
        stateStack |-> cs.stateStack \o pushed]

\* the for loop of epsilonClosure(int) over the transitions, for one popped state
closureScan(nfa, current, k, cs) ==
    LET leaves(j) == /\ nfa.transitions[j].fromState = current
                     /\ nfa.transitions[j].symbol = Epsilon
        \* the transitions that pass the test, each target at its first hit
        hits == SelectSeq([j \in 1..Len(nfa.transitions) |-> j],
                    LAMBDA j : /\ j >= k
                               /\ leaves(j)
                               /\ nfa.transitions[j].toState \notin cs.closure
                               /\ \A m \in k..(j - 1) :
                                     ~(/\ leaves(m)
                                       /\ nfa.transitions[m].toState =
                                              nfa.transitions[j].toState))
        pushed == [n \in 1..Len(hits) |-> nfa.transitions[hits[n]].toState]
    IN [closure |-> cs.closure \cup {pushed[n] : n \in DOMAIN pushed},
        stateStack |-> cs.stateStack \o pushed]

RECURSIVE closureLoop(_, _)
closureLoop(nfa, cs) ==
    IF cs.stateStack = <<>> THEN cs.closure
    ELSE LET n == Len(cs.stateStack)
         IN closureLoop(nfa, closureScan(nfa, cs.stateStack[n], 1,
                             [closure |-> cs.closure,
                              stateStack |-> SubSeq(cs.stateStack, 1, n - 1)]))

epsilonClosure(nfa, state) ==
    closureLoop(nfa, [closure |-> {state}, stateStack |-> <<state>>])

epsilonClosureSet(nfa, states) ==
    UNION {epsilonClosure(nfa, s) : s \in states}

move(nfa, states, sym) ==
    {nfa.transitions[k].toState :
        k \in {j \in DOMAIN nfa.transitions :
                  /\ nfa.transitions[j].fromState \in states
                  /\ nfa.transitions[j].symbol = sym}}

\* -------------------------------------------------------------------- DFA
NewDFA ==
    [states |-> <<>>, transitions |-> EmptyMap, startState |-> 0,
     acceptingStates |-> {}, alphabet |-> {}, stateToTokenType |-> EmptyMap]

DFAaddState(dfa, stateId, isAccepting) ==
    [dfa EXCEPT !.states = Append(@, [id |-> stateId, isAccepting |-> isAccepting]),
                !.acceptingStates = IF isAccepting THEN @ \cup {stateId} ELSE @]

DFAaddTransition(dfa, from, sym, to) ==
    [dfa EXCEPT !.transitions = (<<from, sym>> :> to) @@ @,
                !.alphabet = @ \cup {sym}]

DFAaddAcceptingState(dfa, stateId) ==
    LET hits == {k \in DOMAIN dfa.states : dfa.states[k].id = stateId}
        first == CHOOSE k \in hits : \A j \in hits : k <= j
    IN [dfa EXCEPT !.acceptingStates = @ \cup {stateId},
                   !.states = IF hits = {} THEN @
                              ELSE [@ EXCEPT ![first].isAccepting = TRUE]]

setTokenType(dfa, stateId, tokenType) ==
    [dfa EXCEPT !.stateToTokenType = (stateId :> tokenType) @@ @]

getNextState(dfa, cur, sym) ==
    IF <<cur, sym>> \in DOMAIN dfa.transitions
    THEN dfa.transitions[<<cur, sym>>]
    ELSE -1

RECURSIVE acceptsFrom(_, _, _, _)
acceptsFrom(dfa, str, k, cur) ==
    IF k > Len(str) THEN cur \in dfa.acceptingStates
    ELSE LET next == getNextState(dfa, cur, str[k])
         IN IF next = -1 THEN FALSE ELSE acceptsFrom(dfa, str, k + 1, next)

accepts(dfa, str) == acceptsFrom(dfa, str, 1, dfa.startState)

\* the alphabet loop at the head of fromNFA
nfaAlphabet(nfa) ==
    {nfa.transitions[k].symbol :
        k \in {j \in DOMAIN nfa.transitions : nfa.transitions[j].symbol # Epsilon}}

\* "check if ... state is accepting": some NFA state of the subset is accepting
markAccepting(dfa, nfa, subset, dfaState) ==
    IF subset \cap nfa.acceptingStates # {}
    THEN DFAaddAcceptingState(dfa, dfaState)
    ELSE dfa

\* the subset is looked up and stored before its epsilon closure is taken
subsetSymbolNoClosure(nfa, cx, currentStates, currentDfaState, sym) ==
    LET newStates == move(nfa, currentStates, sym)
        isNew == newStates \notin DOMAIN cx.dfaStateMap
        newDfaState == cx.dfaStateCounter
        c1 == IF isNew
              THEN [dfa |-> markAccepting(DFAaddState(cx.dfa, newDfaState, FALSE),
                                          nfa, newStates, newDfaState),
                    dfaStateMap |-> (newStates :> newDfaState) @@ cx.dfaStateMap,
                    unmarkedStates |-> Append(cx.unmarkedStates, newStates),
                    dfaStateCounter |-> cx.dfaStateCounter + 1]
              ELSE cx
    IN IF newStates = {} THEN cx
       ELSE [c1 EXCEPT !.dfa = DFAaddTransition(@, currentDfaState, sym,
                                                c1.dfaStateMap[newStates])]

\* cx = [dfa, dfaStateMap, unmarkedStates, dfaStateCounter]
\* body of "for (char symbol : alphabet)" for one symbol
subsetSymbol(nfa, cx, currentStates, currentDfaState, sym) ==
    LET newStates == epsilonClosureSet(nfa, move(nfa, currentStates, sym))
        isNew == newStates \notin DOMAIN cx.dfaStateMap
        newDfaState == cx.dfaStateCounter
        c1 == IF isNew
              THEN [dfa |-> markAccepting(DFAaddState(cx.dfa, newDfaState, FALSE),
                                          nfa, newStates, newDfaState),
                    dfaStateMap |-> (newStates :> newDfaState) @@ cx.dfaStateMap,
                    unmarkedStates |-> Append(cx.unmarkedStates, newStates),
                    dfaStateCounter |-> cx.dfaStateCounter + 1]
              ELSE cx
    IN IF newStates = {} THEN cx
       ELSE [c1 EXCEPT !.dfa = DFAaddTransition(@, currentDfaState, sym,
                                                c1.dfaStateMap[newStates])]

RECURSIVE subsetSymbols(_, _, _, _, _, _)
subsetSymbols(nfa, cx, currentStates, currentDfaState, alphaSeq, k) ==
    IF k > Len(alphaSeq) THEN cx
    ELSE subsetSymbols(nfa,
                       subsetSymbol(nfa, cx, currentStates, currentDfaState, alphaSeq[k]),
                       currentStates, currentDfaState, alphaSeq, k + 1)

\* the worklist loop "while (!unmarkedStates.empty())"
RECURSIVE subsetWorklist(_, _, _)
subsetWorklist(nfa, cx, alphaSeq) ==
    IF cx.unmarkedStates = <<>> THEN cx
    ELSE LET currentStates == Head(cx.unmarkedStates)
             popped == [cx EXCEPT !.unmarkedStates = Tail(@)]
         IN subsetWorklist(nfa,
                subsetSymbols(nfa, popped, currentStates,
                              cx.dfaStateMap[currentStates], alphaSeq, 1),
                alphaSeq)

\* the state of fromNFA when the worklist loop is entered
subsetStart(nfa) ==
    LET startClosure == epsilonClosure(nfa, nfa.startState)
        d0 == [NewDFA EXCEPT !.alphabet = nfaAlphabet(nfa), !.startState = 0]
    IN [dfa |-> markAccepting(DFAaddState(d0, 0, FALSE), nfa, startClosure, 0),
        dfaStateMap |-> (startClosure :> 0),
        unmarkedStates |-> <<startClosure>>,
        dfaStateCounter |-> 1]

\* the alphabet in the order "for (char symbol : alphabet)" visits it
alphabetSeq(nfa) == SelectSeq(CharOrder, LAMBDA ch : ch \in nfaAlphabet(nfa))

fromNFA(nfa) == subsetWorklist(nfa, subsetStart(nfa), alphabetSeq(nfa)).dfa

\* ----------------------------------------------- LexicalAnalyzerGenerator
\* the keys of tokenPatterns in the iteration order of the map
patternKeys(tp) == SelectSeq(NameOrder, LAMBDA n : n \in DOMAIN tp)

\* "Create NFA for each token pattern"
buildNfas(tp) == [k \in 1..Len(patternKeys(tp)) |-> fromRegex(tp[patternKeys(tp)[k]])]

\* "Combine all NFAs using union": the values combinedNFA takes, the first
\* being nfas[0] and the j-th the one after the union with the j-th NFA
RECURSIVE combineSteps(_, _)
combineSteps(nfas, k) ==
    IF k = 1 THEN <<nfas[1]>>
    ELSE LET done == combineSteps(nfas, k - 1)
         IN Append(done, union_op(done[k - 1], nfas[k]))

\* combinedNFA after the first k NFAs
combineNfas(nfas, k) == combineSteps(nfas, k)[k]

\* "Set token types for accepting states": the nested loops from name k on
RECURSIVE labelStates(_, _, _)
labelStates(dfa, keys, k) ==
    IF k > Len(keys) THEN dfa
    ELSE labelStates(
            [dfa EXCEPT !.stateToTokenType =
                [s \in dfa.acceptingStates |-> keys[k]] @@ @],
            keys, k + 1)

\* what build() leaves in combinedNFA and finalDFA when there are patterns
buildAutomata(tp) ==
    LET nfas == buildNfas(tp)
        combined == combineNfas(nfas, Len(nfas))
    IN [combinedNFA |-> combined,
        finalDFA |-> labelStates(fromNFA(combined), patternKeys(tp), 1)]

\* build() that fills the DFA anew but leaves the labels of the last build in
\* stateToTokenType
buildKeepsLabels(tp, g) ==
    IF patternKeys(tp) = <<>>
    THEN [combinedNFA |-> g.combinedNFA, finalDFA |-> g.finalDFA,
          log |-> <<"Error: No token patterns defined!">>]
    ELSE [combinedNFA |-> buildAutomata(tp).combinedNFA,
          finalDFA |-> [buildAutomata(tp).finalDFA EXCEPT
                           !.stateToTokenType = @ @@ g.finalDFA.stateToTokenType],
          log |-> <<"Build complete!">>]

\* build(): the automata and the message it leaves, from tokenPatterns tp and
\* the automata g = [combinedNFA, finalDFA] held before the call
build(tp, g) ==
    IF patternKeys(tp) = <<>>
    THEN [combinedNFA |-> g.combinedNFA, finalDFA |-> g.finalDFA,
          log |-> <<"Error: No token patterns defined!">>]
    ELSE [combinedNFA |-> buildAutomata(tp).combinedNFA,
          finalDFA |-> buildAutomata(tp).finalDFA,
          log |-> <<"Build complete!">>]

\* the tables generateCppCode writes into the emitted LexicalAnalyzer
emitTables(dfa) ==
    [START_STATE |-> dfa.startState,
     transitionTable |-> dfa.transitions,
     acceptingStates |-> [s \in dfa.acceptingStates |-> TRUE],
     stateToToken |-> [s \in dfa.acceptingStates \cap DOMAIN dfa.stateToTokenType |->
                          dfa.stateToTokenType[s]]]

\* ------------------------------------------------------------------ state
VARIABLES
    \* main and its LexicalAnalyzerGenerator
    tokenPatterns, combinedNFA, finalDFA, built,
    added,          \* the addTokenPattern calls made so far, in call order
    out,            \* what the last menu choice printed
    lexer,          \* the tables of the last emitted LexicalAnalyzer
    \* the emitted tokenize
    input, i, currentState, currentLexeme, line, column,
    lastAcceptState, lastAcceptPos, tokens, errors, spc,
    \* NFA::fromRegex / DFA::fromNFA / DFA::accepts on one regex
    rx, rxPostfix, rxNFA, rxDFA, rxWord, rxVerdict, rpc,
    \* the locals of DFA::fromNFA in that run
    sub,            \* [dfa, dfaStateMap, unmarkedStates, dfaStateCounter]
    subCur,         \* currentStates
    subSym,         \* the position of "symbol" in the alphabet, 0 before the loop
    \* the locals of a call of NFA::epsilonClosure(const set<int>&)
    clo,            \* [states, rest, result, closure, stateStack]
    cpc

genVars == <<tokenPatterns, combinedNFA, finalDFA, built, added, out, lexer>>
scanVars == <<input, i, currentState, currentLexeme, line, column,
              lastAcceptState, lastAcceptPos, tokens, errors, spc>>
subVars == <<sub, subCur, subSym>>
cloVars == <<clo, cpc>>
rxVars == <<rx, rxPostfix, rxNFA, rxDFA, rxWord, rxVerdict, rpc, subVars, cloVars>>
vars == <<genVars, scanVars, rxVars>>

\* ----------------------------------------------------------- input domains
\* the token names typed at "Enter token type"
MenuNames == {"T1", "T2"}

\* the patterns typed at the menu
MenuPatterns ==
    {<<"a">>, <<"a", "b">>, <<"a", "|">>, <<"*">>, <<>>, <<"(", "a">>}

\* the token specs the emitted scanners are generated from
ScanPatterns == {<<"a">>, <<"a", "b">>, <<"a", "b", "b">>, <<"a", "*">>}

InputChars == {"a", "b", " ", "\n"}

RegexChars == {"a", "b", ".", "(", ")", "|", "*"}

WordChars == {"a", "b", "."}

\* --------------------------------------------------------- initial states
GenInit ==
    /\ tokenPatterns = EmptyMap
    /\ combinedNFA = NewNFA
    /\ finalDFA = NewDFA
    /\ built = FALSE
    /\ added = <<>>
    /\ out = <<>>
    /\ lexer = emitTables(NewDFA)

ScanIdle ==
    /\ input = <<>>
    /\ i = 0
    /\ currentState = 0
    /\ currentLexeme = <<>>
    /\ line = 1
    /\ column = 1
    /\ lastAcceptState = -1
    /\ lastAcceptPos = -1
    /\ tokens = <<>>
    /\ errors = <<>>
    /\ spc = "idle"

\* epsilonClosure not entered
ClosureIdle ==
    /\ clo = [states |-> {}, rest |-> <<>>, result |-> {}, closure |-> {},
              stateStack |-> <<>>]
    /\ cpc = "idle"

\* fromNFA not entered
SubIdle ==
    /\ sub = [dfa |-> NewDFA, dfaStateMap |-> EmptyMap,
              unmarkedStates |-> <<>>, dfaStateCounter |-> 0]
    /\ subCur = {}
    /\ subSym = 0

RxIdle ==
    /\ rx = <<>>
    /\ rxPostfix = <<>>
    /\ rxNFA = NewNFA
    /\ rxDFA = NewDFA
    /\ rxWord = <<>>
    /\ rxVerdict = FALSE
    /\ rpc = "idle"
    /\ SubIdle
    /\ ClosureIdle

Init == GenInit /\ ScanIdle /\ RxIdle

\* ----------------------------------------------------------- main's menu
\* case 1: Add Token Pattern
Choice1(tokenType, pattern) ==
    /\ IF isValidRegex(pattern)
       THEN /\ Len(added) < MaxCalls
            /\ tokenPatterns' = (tokenType :> pattern) @@ tokenPatterns
            /\ added' = Append(added, [name |-> tokenType, pattern |-> pattern])
            /\ out' = <<"Pattern added successfully!">>
       ELSE /\ out' = <<"Invalid regex pattern! Please check parentheses.">>
            /\ UNCHANGED <<tokenPatterns, added>>
    /\ UNCHANGED <<combinedNFA, finalDFA, built, lexer, scanVars, rxVars>>

\* case 2: Build Lexical Analyzer
Choice2 ==
    LET b == build(tokenPatterns, [combinedNFA |-> combinedNFA, finalDFA |-> finalDFA])
    IN /\ combinedNFA' = b.combinedNFA
       /\ finalDFA' = b.finalDFA
       /\ built' = TRUE
       /\ out' = b.log \o <<"Lexical analyzer built successfully!">>
       /\ UNCHANGED <<tokenPatterns, added, lexer, scanVars, rxVars>>

\* case 3: Display NFA
Choice3 ==
    /\ out' = IF ~built THEN <<"Please build the analyzer first (option 2)!">>
              ELSE <<"NFA Structure">>
    /\ UNCHANGED <<tokenPatterns, combinedNFA, finalDFA, built, added, lexer,
                   scanVars, rxVars>>

\* case 4: Display DFA
Choice4 ==
    /\ out' = IF ~built THEN <<"Please build the analyzer first (option 2)!">>
              ELSE <<"DFA Structure">>
    /\ UNCHANGED <<tokenPatterns, combinedNFA, finalDFA, built, added, lexer,
                   scanVars, rxVars>>

\* case 5: Generate C++ Code
Choice5 ==
    /\ IF ~built
       THEN /\ out' = <<"Please build the analyzer first (option 2)!">>
            /\ UNCHANGED lexer
       ELSE /\ out' = <<"C++ code generated successfully">>
            /\ lexer' = emitTables(finalDFA)
    /\ UNCHANGED <<tokenPatterns, combinedNFA, finalDFA, built, added,
                   scanVars, rxVars>>

\* the operator, relational and delimiter specs of loadPredefinedPatterns, in
\* call order (the keyword, identifier and number specs before them are further
\* alternatives of the union over letters and digits, and are left out here)
PredefinedPatterns ==
    <<[name |-> "PLUS", pattern |-> <<"+">>],
      [name |-> "MINUS", pattern |-> <<"-">>],
      [name |-> "MULTIPLY", pattern |-> <<"*">>],
      [name |-> "DIVIDE", pattern |-> <<"/">>],
      [name |-> "ASSIGN", pattern |-> <<"=">>],
      [name |-> "LESS_THAN", pattern |-> <<"<">>],
      [name |-> "GREATER_THAN", pattern |-> <<">">>],
      [name |-> "SEMICOLON", pattern |-> <<";">>],
      [name |-> "LPAREN", pattern |-> <<"(">>],
      [name |-> "RPAREN", pattern |-> <<")">>],
      [name |-> "LBRACE", pattern |-> <<"{">>],
      [name |-> "RBRACE", pattern |-> <<"}">>]>>

\* tokenPatterns after the addTokenPattern calls ps[k], ps[k+1], ...
RECURSIVE addTokenPatterns(_, _, _)
addTokenPatterns(tp, ps, k) ==
    IF k > Len(ps) THEN tp
    ELSE addTokenPatterns((ps[k].name :> ps[k].pattern) @@ tp, ps, k + 1)

\* case 6: loadPredefinedPatterns(generator), no isValidRegex on the way
Choice6 ==
    /\ tokenPatterns' = addTokenPatterns(tokenPatterns, PredefinedPatterns, 1)
    /\ added' = added \o PredefinedPatterns
    /\ out' = <<"Predefined patterns loaded successfully!">>
    /\ UNCHANGED <<combinedNFA, finalDFA, built, lexer, scanVars, rxVars>>

Next ==
    \/ \E tokenType \in MenuNames, pattern \in MenuPatterns :
          Choice1(tokenType, pattern)
    \/ Choice2
    \/ Choice3
    \/ Choice4
    \/ Choice5

Spec == Init /\ [][Next]_vars

\* ---------------------------------------------------- the emitted tokenize
\* acceptingStates[s] and stateToToken[s] of the emitted class (operator[] of a
\* std::map gives false and "" for a missing key)
lexAccepting(lx, s) == s \in DOMAIN lx.acceptingStates /\ lx.acceptingStates[s]

lexToken(lx, s) == IF s \in DOMAIN lx.stateToToken THEN lx.stateToToken[s] ELSE ""

lexNextState(lx, cur, sym) ==
    IF <<cur, sym>> \in DOMAIN lx.transitionTable
    THEN lx.transitionTable[<<cur, sym>>]
    ELSE -1

\* substr(0, lastAcceptPos) instead of substr(0, lastAcceptPos + 1)
substr0OffByOne(str, n) == SubSeq(str, 1, IF n - 1 < Len(str) THEN n - 1 ELSE Len(str))

\* std::string::substr(0, n)
substr0(str, n) == SubSeq(str, 1, IF n < Len(str) THEN n ELSE Len(str))

\* the line/column update that ends every iteration of the for loop
advanceLineColumn(ch) ==
    IF ch = "\n"
    THEN line' = line + 1 /\ column' = 1
    ELSE column' = column + 1 /\ UNCHANGED line

\* loop iteration, nextState != -1
ScanAdvance ==
    /\ spc = "loop" /\ i < Len(input)
    /\ LET ch == input[i + 1]
           nextState == lexNextState(lexer, currentState, ch)
       IN /\ nextState # -1
          /\ currentState' = nextState
          /\ currentLexeme' = Append(currentLexeme, ch)
          /\ IF lexAccepting(lexer, nextState)
             THEN lastAcceptState' = nextState /\ lastAcceptPos' = i
             ELSE UNCHANGED <<lastAcceptState, lastAcceptPos>>
          /\ i' = i + 1
          /\ advanceLineColumn(ch)
    /\ UNCHANGED <<input, tokens, errors, spc, genVars, rxVars>>

\* the emit branch with "i = lastAcceptPos - currentLexeme.length()": the scan
\* resumes where the emitted token began
ScanEmitRescan ==
    /\ spc = "loop" /\ i < Len(input)
    /\ LET ch == input[i + 1]
           nextState == lexNextState(lexer, currentState, ch)
       IN /\ nextState = -1
          /\ lastAcceptState # -1
          /\ tokens' = Append(tokens,
                [type |-> lexToken(lexer, lastAcceptState),
                 lexeme |-> substr0(currentLexeme, lastAcceptPos + 1),
                 line |-> line, column |-> column])
          /\ i' = IF lastAcceptPos - Len(currentLexeme) + 1 < 0 THEN 0
                  ELSE lastAcceptPos - Len(currentLexeme) + 1
          /\ currentState' = lexer.START_STATE
          /\ currentLexeme' = <<>>
          /\ lastAcceptState' = -1
          /\ lastAcceptPos' = -1
          /\ advanceLineColumn(ch)
    /\ UNCHANGED <<input, errors, spc, genVars, rxVars>>

\* loop iteration, nextState == -1 and lastAcceptState != -1
ScanEmit ==
    /\ spc = "loop" /\ i < Len(input)
    /\ LET ch == input[i + 1]
           nextState == lexNextState(lexer, currentState, ch)
       IN /\ nextState = -1
          /\ lastAcceptState # -1
          /\ tokens' = Append(tokens,
                [type |-> lexToken(lexer, lastAcceptState),
                 lexeme |-> substr0(currentLexeme, lastAcceptPos + 1),
                 line |-> line, column |-> column])
          /\ i' = lastAcceptPos + 1
          /\ currentState' = lexer.START_STATE
          /\ currentLexeme' = <<>>
          /\ lastAcceptState' = -1
          /\ lastAcceptPos' = -1
          /\ advanceLineColumn(ch)
    /\ UNCHANGED <<input, errors, spc, genVars, rxVars>>

\* loop iteration, nextState == -1 and lastAcceptState == -1
ScanRecover ==
    /\ spc = "loop" /\ i < Len(input)
    /\ LET ch == input[i + 1]
           nextState == lexNextState(lexer, currentState, ch)
       IN /\ nextState = -1
          /\ lastAcceptState = -1
          /\ errors' = IF ch # " " /\ ch # "\t" /\ ch # "\n"
                       THEN Append(errors, [line |-> line, column |-> column])
                       ELSE errors
          /\ currentState' = lexer.START_STATE
          /\ currentLexeme' = <<>>
          /\ i' = i + 1
          /\ advanceLineColumn(ch)
    /\ UNCHANGED <<input, lastAcceptState, lastAcceptPos, tokens, spc, genVars, rxVars>>

\* after the loop: "Handle last token"
ScanFinish ==
    /\ spc = "loop" /\ i >= Len(input)
    /\ tokens' = IF lastAcceptState # -1
                 THEN Append(tokens,
                        [type |-> lexToken(lexer, lastAcceptState),
                         lexeme |-> currentLexeme,
                         line |-> line, column |-> column])
                 ELSE tokens
    /\ spc' = "done"
    /\ UNCHANGED <<input, i, currentState, currentLexeme, line, column,
                   lastAcceptState, lastAcceptPos, errors, genVars, rxVars>>

\* the token specs a scanner is generated from
ScanSpecs ==
    UNION {[D -> ScanPatterns] :
              D \in SUBSET MenuNames \ {{}}}

\* a generator after its patterns were added, built and emitted, and the
\* emitted tokenize entered on some input
ScanInit ==
    /\ \E tp \in ScanSpecs :
          /\ tokenPatterns = tp
          /\ combinedNFA = buildAutomata(tp).combinedNFA
          /\ finalDFA = buildAutomata(tp).finalDFA
          /\ added = [k \in 1..Len(patternKeys(tp)) |->
                         [name |-> patternKeys(tp)[k], pattern |-> tp[patternKeys(tp)[k]]]]
    /\ built = TRUE
    /\ out = <<"C++ code generated successfully">>
    /\ lexer = emitTables(finalDFA)
    /\ input \in SeqsUpTo(InputChars, MaxInput)
    /\ i = 0
    /\ currentState = lexer.START_STATE
    /\ currentLexeme = <<>>
    /\ line = 1
    /\ column = 1
    /\ lastAcceptState = -1
    /\ lastAcceptPos = -1
    /\ tokens = <<>>
    /\ errors = <<>>
    /\ spc = "loop"
    /\ RxIdle

ScanNext == ScanAdvance \/ ScanEmit \/ ScanRecover \/ ScanFinish

SpecScan == ScanInit /\ [][ScanNext]_vars

\* tokenize is one thread of control: it keeps taking steps until it returns
SpecScanRun == ScanInit /\ [][ScanNext]_vars /\ WF_vars(ScanNext)

\* ------------------- a session that loads the predefined patterns, builds,
\* ------------------- emits the analyzer and runs the emitted tokenize
LoadChars == {"+", "*", "(", ")"}

\* the emitted tokenize entered on text, once main has emitted the analyzer
ScanStart(text) ==
    /\ spc = "idle"
    /\ built
    /\ out = <<"C++ code generated successfully">>
    /\ input' = text
    /\ i' = 0
    /\ currentState' = lexer.START_STATE
    /\ currentLexeme' = <<>>
    /\ line' = 1
    /\ column' = 1
    /\ lastAcceptState' = -1
    /\ lastAcceptPos' = -1
    /\ tokens' = <<>>
    /\ errors' = <<>>
    /\ spc' = "loop"
    /\ UNCHANGED <<genVars, rxVars>>

LoadMenu ==
    /\ spc = "idle"
    /\ Len(added) < MaxCalls * Len(PredefinedPatterns)
    /\ Choice6

LoadNext ==
    \/ LoadMenu
    \/ spc = "idle" /\ Choice2
    \/ spc = "idle" /\ Choice3
    \/ spc = "idle" /\ Choice4
    \/ spc = "idle" /\ Choice5
    \/ \E text \in SeqsUpTo(LoadChars, MaxLoadInput) : ScanStart(text)
    \/ ScanNext

SpecLoad == Init /\ [][LoadNext]_vars

\* ------------------------------- fromRegex, fromNFA and accepts on a regex
RxInit ==
    /\ GenInit
    /\ ScanIdle
    /\ rx \in SeqsUpTo(RegexChars, MaxRegexLen)
    /\ rxPostfix = <<>>
    /\ rxNFA = NewNFA
    /\ rxDFA = NewDFA
    /\ rxWord = <<>>
    /\ rxVerdict = FALSE
    /\ rpc = "regex"
    /\ SubIdle
    /\ ClosureIdle

\* fromRegex, line 1: the postfix form
RxPostfix ==
    /\ rpc = "regex"
    /\ rxPostfix' = infixToPostfix(rx)
    /\ rpc' = "postfix"
    /\ UNCHANGED <<rx, rxNFA, rxDFA, rxWord, rxVerdict, subVars, cloVars, genVars, scanVars>>

\* fromRegex, the stack evaluation and the return
RxThompson ==
    /\ rpc = "postfix"
    /\ rxNFA' = stackResult(thompson(rxPostfix, 1, <<>>))
    /\ rpc' = "nfa"
    /\ UNCHANGED <<rx, rxPostfix, rxDFA, rxWord, rxVerdict, subVars, cloVars, genVars, scanVars>>

\* fromNFA up to the worklist loop
RxSubsetStart ==
    /\ rpc = "nfa"
    /\ sub' = subsetStart(rxNFA)
    /\ subCur' = {}
    /\ subSym' = 0
    /\ rpc' = "subset"
    /\ UNCHANGED <<rx, rxPostfix, rxNFA, rxDFA, rxWord, rxVerdict, cloVars,
                   genVars, scanVars>>

\* whether the run is inside "for (char symbol : alphabet)"
inSymbolLoop == subSym \in 1..Len(alphabetSeq(rxNFA))

\* "while (!unmarkedStates.empty())": front and pop
RxSubsetPop ==
    /\ rpc = "subset"
    /\ ~inSymbolLoop
    /\ sub.unmarkedStates # <<>>
    /\ subCur' = Head(sub.unmarkedStates)
    /\ sub' = [sub EXCEPT !.unmarkedStates = Tail(@)]
    /\ subSym' = 1
    /\ UNCHANGED <<rx, rxPostfix, rxNFA, rxDFA, rxWord, rxVerdict, rpc, cloVars,
                   genVars, scanVars>>

\* one iteration of "for (char symbol : alphabet)"
RxSubsetSymbol ==
    /\ rpc = "subset"
    /\ inSymbolLoop
    /\ sub' = subsetSymbol(rxNFA, sub, subCur, sub.dfaStateMap[subCur],
                           alphabetSeq(rxNFA)[subSym])
    /\ subSym' = subSym + 1
    /\ UNCHANGED <<rx, rxPostfix, rxNFA, rxDFA, rxWord, rxVerdict, rpc, subCur,
                   cloVars, genVars, scanVars>>

\* "return dfa"
RxSubsetReturn ==
    /\ rpc = "subset"
    /\ ~inSymbolLoop
    /\ sub.unmarkedStates = <<>>
    /\ rxDFA' = sub.dfa
    /\ rpc' = "dfa"
    /\ UNCHANGED <<rx, rxPostfix, rxNFA, rxWord, rxVerdict, subVars, cloVars, genVars, scanVars>>

RxAccepts(w) ==
    /\ rpc = "dfa"
    /\ rxWord' = w
    /\ rxVerdict' = accepts(rxDFA, w)
    /\ rpc' = "done"
    /\ UNCHANGED <<rx, rxPostfix, rxNFA, rxDFA, subVars, cloVars, genVars, scanVars>>

RxNext ==
    \/ RxPostfix
    \/ RxThompson
    \/ RxSubsetStart
    \/ RxSubsetPop
    \/ RxSubsetSymbol
    \/ RxSubsetReturn
    \/ \E w \in SeqsUpTo(WordChars, MaxWord) : RxAccepts(w)

SpecRegex == RxInit /\ [][RxNext]_vars

\* ------------------- NFA::epsilonClosure(const set<int>&) on the NFA of a regex
ClosureChars == {"a", "(", ")", "|", "*"}

\* the call epsilonClosure(states) on the NFA fromRegex returned, states being
\* some of its states
ClosureInit ==
    /\ GenInit
    /\ ScanIdle
    /\ rx \in SeqsUpTo(ClosureChars, MaxRegexLen)
    /\ rxPostfix = infixToPostfix(rx)
    /\ rxNFA = fromRegex(rx)
    /\ rxDFA = NewDFA
    /\ rxWord = <<>>
    /\ rxVerdict = FALSE
    /\ rpc = "nfa"
    /\ SubIdle
    /\ \E S \in SUBSET {rxNFA.states[k].id : k \in DOMAIN rxNFA.states} :
          /\ Cardinality(S) <= MaxClosureSet
          /\ clo = [states |-> S, rest |-> SortedSeq(S), result |-> {},
                    closure |-> {}, stateStack |-> <<>>]
    /\ cpc = "for"

\* "for (int state : states)": epsilonClosure(state) entered
ClosureCall ==
    /\ cpc = "for"
    /\ clo.rest # <<>>
    /\ clo' = [clo EXCEPT !.rest = Tail(@),
                          !.closure = {Head(clo.rest)},
                          !.stateStack = <<Head(clo.rest)>>]
    /\ cpc' = "while"
    /\ UNCHANGED <<rx, rxPostfix, rxNFA, rxDFA, rxWord, rxVerdict, rpc, subVars,
                   genVars, scanVars>>

\* one iteration of "while (!stateStack.empty())"
ClosurePop ==
    /\ cpc = "while"
    /\ clo.stateStack # <<>>
    /\ LET n == Len(clo.stateStack)
           cs == closureScan(rxNFA, clo.stateStack[n], 1,
                             [closure |-> clo.closure,
                              stateStack |-> SubSeq(clo.stateStack, 1, n - 1)])
       IN clo' = [clo EXCEPT !.closure = cs.closure, !.stateStack = cs.stateStack]
    /\ UNCHANGED <<rx, rxPostfix, rxNFA, rxDFA, rxWord, rxVerdict, rpc, subVars,
                   cpc, genVars, scanVars>>

\* epsilonClosure(state) returns and its result is inserted
ClosureReturn ==
    /\ cpc = "while"
    /\ clo.stateStack = <<>>
    /\ clo' = [clo EXCEPT !.result = @ \cup clo.closure]
    /\ cpc' = "for"
    /\ UNCHANGED <<rx, rxPostfix, rxNFA, rxDFA, rxWord, rxVerdict, rpc, subVars,
                   genVars, scanVars>>

\* "return closure"
ClosureDone ==
    /\ cpc = "for"
    /\ clo.rest = <<>>
    /\ cpc' = "done"
    /\ UNCHANGED <<rx, rxPostfix, rxNFA, rxDFA, rxWord, rxVerdict, rpc, subVars,
                   clo, genVars, scanVars>>

ClosureNext == ClosureCall \/ ClosurePop \/ ClosureReturn \/ ClosureDone

\* the call is one thread of control: it keeps taking steps until it returns
SpecClosure == ClosureInit /\ [][ClosureNext]_vars /\ WF_vars(ClosureNext)

\* =================================================================== claims
BuildOk == <<"Build complete!", "Lexical analyzer built successfully!">>

Names == MenuNames

\* the specs the generator holds, in the order build() compiles them
heldSpecs ==
    [k \in 1..Len(patternKeys(tokenPatterns)) |->
        [name |-> patternKeys(tokenPatterns)[k],
         pattern |-> tokenPatterns[patternKeys(tokenPatterns)[k]]]]

\* the DFA state reached from cur on str[k..], -1 when a transition is missing
RECURSIVE stateAfterFrom(_, _, _, _)
stateAfterFrom(dfa, str, k, cur) ==
    IF k > Len(str) \/ cur = -1 THEN cur
    ELSE stateAfterFrom(dfa, str, k + 1, getNextState(dfa, cur, str[k]))

stateAfter(dfa, str) == stateAfterFrom(dfa, str, 1, dfa.startState)

labelOf(dfa, s) ==
    IF s \in DOMAIN dfa.stateToTokenType THEN dfa.stateToTokenType[s] ELSE ""

\* the name of the earliest-declared spec whose own pattern accepts w
earliestMatching(w) ==
    LET hits == {k \in DOMAIN added : accepts(fromNFA(fromRegex(added[k].pattern)), w)}
    IN IF hits = {} THEN ""
       ELSE added[CHOOSE k \in hits : \A j \in hits : k <= j].name

\* the stack depth after evaluating postfix[k..] from depth d; -1 as soon as an
\* operator finds too few operands
RECURSIVE postfixDepth(_, _, _)
postfixDepth(postfix, k, d) ==
    IF k > Len(postfix) THEN d
    ELSE IF postfix[k] = "*"
    THEN (IF d < 1 THEN -1 ELSE postfixDepth(postfix, k + 1, d))
    ELSE IF postfix[k] = "|" \/ postfix[k] = "."
    THEN (IF d < 2 THEN -1 ELSE postfixDepth(postfix, k + 1, d - 1))
    ELSE postfixDepth(postfix, k + 1, d + 1)

\* a malformed pattern: unbalanced parentheses, an operator short of operands,
\* or a final stack depth other than one
Malformed(pattern) ==
    \/ ~validScan(pattern, 1, 0)
    \/ postfixDepth(infixToPostfix(pattern), 1, 0) # 1

AllWellFormed == \A k \in DOMAIN added : ~Malformed(added[k].pattern)

\* C1: after build(), every accepting DFA state carries the name of the
\* earliest-declared spec among those whose pattern accepts a string leading
\* to the state (so T1="ab", T2="ab" labels the state reached on "ab" T1).
C1_EarliestSpecLabels ==
    (out = BuildOk /\ heldSpecs = added /\ AllWellFormed) =>
        \A w \in SeqsUpTo({"a", "b"}, MaxWord) :
            stateAfter(finalDFA, w) \in finalDFA.acceptingStates =>
                labelOf(finalDFA, stateAfter(finalDFA, w)) = earliestMatching(w)

\* C2: the generator holds exactly one spec per addTokenPattern call, in call
\* order (a reused name adds a further spec), and build() compiles in that order.
C2_OneSpecPerCallInOrder == heldSpecs = added

\* the offset at which build() renumbers the states of nfas[j] inside the
\* combination of nfas[1..k]
RECURSIVE specOffset(_, _, _)
specOffset(nfas, k, j) ==
    IF k = 1 THEN 0
    ELSE IF j = k THEN 1 + Len(combineNfas(nfas, k - 1).states)
    ELSE 1 + specOffset(nfas, k - 1, j)

\* C3: in the combined NFA of k >= 2 specs the start state has an epsilon
\* transition to the renumbered start state of every per-token NFA, and every
\* accepting state of every per-token NFA is still accepting (none is replaced
\* by a shared accepting state).
C3_AcceptingStatesKept ==
    (out = BuildOk /\ Len(heldSpecs) >= 2 /\ AllWellFormed) =>
        LET nfas == buildNfas(tokenPatterns)
        IN \A j \in DOMAIN nfas :
              /\ \E t \in DOMAIN combinedNFA.transitions :
                    combinedNFA.transitions[t] =
                        Transition(combinedNFA.startState,
                                   nfas[j].startState + specOffset(nfas, Len(nfas), j),
                                   Epsilon)
              /\ \A a \in nfas[j].acceptingStates :
                    a + specOffset(nfas, Len(nfas), j) \in combinedNFA.acceptingStates

\* ---- the grammar and the language of a regex, by the grammar's definition
\* the index of the ")" closing the "(" at index k
RECURSIVE closingParen(_, _, _)
closingParen(r, k, depth) ==
    IF k > Len(r) THEN 0
    ELSE IF r[k] = "(" THEN closingParen(r, k + 1, depth + 1)
    ELSE IF r[k] = ")" THEN (IF depth = 1 THEN k ELSE closingParen(r, k + 1, depth - 1))
    ELSE closingParen(r, k + 1, depth)

\* the index of the first "|" outside parentheses, 0 if there is none
RECURSIVE topLevelBar(_, _, _)
topLevelBar(r, k, depth) ==
    IF k > Len(r) THEN 0
    ELSE IF r[k] = "(" THEN topLevelBar(r, k + 1, depth + 1)
    ELSE IF r[k] = ")" THEN topLevelBar(r, k + 1, depth - 1)
    ELSE IF r[k] = "|" /\ depth = 0 THEN k
    ELSE topLevelBar(r, k + 1, depth)

\* regex := term ('|' term)*, term := factor*, factor := atom '*'?,
\* atom := CHAR | '(' regex ')'
InGrammar(r) ==
    /\ validScan(r, 1, 0)
    /\ \A k \in DOMAIN r :
          r[k] = "*" => (k > 1 /\ r[k - 1] \notin {"(", "|", "*"})

RECURSIVE InLang(_, _)
RECURSIVE InTerm(_, _)
RECURSIVE InStar(_, _)

\* w is in L(a) for the atom a (a CHAR or a parenthesised regex)
InAtom(a, w) ==
    IF a[1] = "(" THEN InLang(SubSeq(a, 2, Len(a) - 1), w) ELSE w = a

InStar(a, w) ==
    \/ w = <<>>
    \/ \E n \in 1..Len(w) :
          InAtom(a, SubSeq(w, 1, n)) /\ InStar(a, SubSeq(w, n + 1, Len(w)))

InTerm(t, w) ==
    IF t = <<>> THEN w = <<>>
    ELSE LET e == IF t[1] = "(" THEN closingParen(t, 1, 0) ELSE 1
             starred == e + 1 <= Len(t) /\ t[e + 1] = "*"
             rest == SubSeq(t, e + (IF starred THEN 2 ELSE 1), Len(t))
         IN \E n \in 0..Len(w) :
               /\ IF starred THEN InStar(SubSeq(t, 1, e), SubSeq(w, 1, n))
                  ELSE InAtom(SubSeq(t, 1, e), SubSeq(w, 1, n))
               /\ InTerm(rest, SubSeq(w, n + 1, Len(w)))

InLang(r, w) ==
    LET b == topLevelBar(r, 1, 0)
    IN IF b = 0 THEN InTerm(r, w)
       ELSE InTerm(SubSeq(r, 1, b - 1), w) \/ InLang(SubSeq(r, b + 1, Len(r)), w)

\* C4: for every non-empty regex r of the grammar (here: over letters, without
\* a literal ".") and every word w, fromNFA(fromRegex(r)).accepts(w) iff w is
\* in L(r).
C4_AcceptsIffInLanguage ==
    (rpc = "done" /\ rx # <<>> /\ InGrammar(rx) /\ \A k \in DOMAIN rx : rx[k] # ".") =>
        (rxVerdict <=> InLang(rx, rxWord))

\* ---- the emitted tokenize
\* the index at which the token being scanned started
tokenStart == i - Len(currentLexeme)

\* the length of the longest non-empty prefix of input[pos..] the DFA accepts
\* (0 if there is none); indexes are 0-based as in the scanner
longestAccepted(pos) ==
    LET lens == {n \in 1..(Len(input) - pos) :
                    accepts(finalDFA, SubSeq(input, pos + 1, pos + n))}
    IN IF lens = {} THEN 0 ELSE CHOOSE n \in lens : \A m \in lens : m <= n

\* C5: maximal munch: a token emitted for a token start pos has as lexeme the
\* longest prefix of input[pos..] the DFA accepts, as type the label of the
\* DFA state reached on it, and scanning resumes right after that prefix.
C5_MaximalMunch ==
    [][tokens' # tokens =>
        LET pos == tokenStart
            end == pos + longestAccepted(pos)
            tok == tokens'[Len(tokens')]
        IN /\ end > pos
           /\ tok.lexeme = SubSeq(input, pos + 1, end)
           /\ tok.type = labelOf(finalDFA, stateAfter(finalDFA, tok.lexeme))
           /\ i' = end]_vars

\* line and column of the byte at index pos, counting every byte before it once
RECURSIVE lineColumnAt(_, _)
lineColumnAt(str, pos) ==
    IF pos = 0 THEN [line |-> 1, column |-> 1]
    ELSE LET before == lineColumnAt(str, pos - 1)
         IN IF str[pos] = "\n"
            THEN [line |-> before.line + 1, column |-> 1]
            ELSE [line |-> before.line, column |-> before.column + 1]

Whitespace == {" ", "\t", "\n"}

\* C6: error recovery: when the scanner gives up the token started at pos (no
\* non-empty prefix of input[pos..] is accepted) and input[pos] is not
\* whitespace, it reports a lexical error for position pos and resumes at
\* pos + 1 in the start state.
C6_ErrorRecovery ==
    [][(ScanRecover /\ longestAccepted(tokenStart) = 0
          /\ input[tokenStart + 1] \notin Whitespace) =>
        /\ errors' = Append(errors, lineColumnAt(input, tokenStart))
        /\ i' = tokenStart + 1
        /\ currentState' = lexer.START_STATE
        /\ currentLexeme' = <<>>]_vars

\* C7: build() with zero specs fails: no automaton is produced, the generator
\* is unchanged, and the caller sees a failed build, not a successful one.
C7_NoPatternsFails ==
    [][(Choice2 /\ DOMAIN tokenPatterns = {}) =>
        /\ UNCHANGED <<tokenPatterns, combinedNFA, finalDFA>>
        /\ ~built'
        /\ \A k \in DOMAIN out' : out'[k] # "Lexical analyzer built successfully!"]_vars

\* C8: build() with a malformed (non-empty) pattern among the specs fails and
\* produces no DFA.
C8_MalformedRegexFails ==
    [][(Choice2 /\ \E n \in DOMAIN tokenPatterns :
                      tokenPatterns[n] # <<>> /\ Malformed(tokenPatterns[n])) =>
        /\ UNCHANGED <<combinedNFA, finalDFA>>
        /\ \A k \in DOMAIN out' : out'[k] # "Build complete!"]_vars

\* C9: the automaton built from the empty pattern accepts the empty string and
\* no other string.
C9_EmptyPatternAcceptsEmpty ==
    (rpc = "done" /\ rx = <<>>) => (rxVerdict <=> rxWord = <<>>)

\* C10: at every point of the scan, (line, column) is the position obtained by
\* counting each input byte before the scan position i once.
C10_LineColumnPerByte ==
    spc \in {"loop", "done"} =>
        [line |-> line, column |-> column] = lineColumnAt(input, i)

\* a^n b
aThenB(n) == [k \in 1..(n + 1) |-> IF k <= n THEN "a" ELSE "b"]

\* the scanner was generated from the single spec name = "a*"
StarSpec == \E name \in Names : tokenPatterns = (name :> <<"a", "*">>)

\* C11: the scanner never emits a token with an empty lexeme, also when the
\* DFA start state is accepting (single spec "a*"): there a lexical error is
\* only ever reported on a "b", input "b" ends with one error and no token,
\* and input a^n b (n >= 1, e.g. "aaab") ends with exactly the one token a^n
\* of that spec and one error.
C11_NoEmptyLexeme ==
    [][/\ \A k \in DOMAIN tokens' : tokens'[k].lexeme # <<>>
       /\ (StarSpec /\ errors' # errors) => input[i + 1] = "b"
       /\ (StarSpec /\ spc' = "done") =>
             \A n \in 0..(MaxInput - 1) :
                input = aThenB(n) =>
                   /\ Len(errors') = 1
                   /\ Len(tokens') = IF n = 0 THEN 0 ELSE 1
                   /\ n > 0 => /\ tokens'[1].lexeme = [k \in 1..n |-> "a"]
                               /\ tokens'[1].type \in DOMAIN tokenPatterns]_vars

\* the scan of "aaab" with the spec "a*" has ended with one token
C11_Witness ==
    /\ StarSpec
    /\ spc = "done"
    /\ input = <<"a", "a", "a", "b">>
    /\ Len(tokens) = 1
    /\ lexAccepting(lexer, lexer.START_STATE)

\* the predefined specs are exactly what the generator holds, and it is built
PredefinedBuilt ==
    /\ built
    /\ out = BuildOk
    /\ tokenPatterns = addTokenPatterns(EmptyMap, PredefinedPatterns, 1)

\* C12: after loadPredefinedPatterns and build(), the DFA accepts, for each
\* operator or delimiter spec, the one-character string equal to its pattern,
\* and accepts neither the empty string nor any other string over these
\* characters.
C12_OperatorSpecsAccepted ==
    PredefinedBuilt =>
        /\ \A k \in DOMAIN PredefinedPatterns :
              accepts(finalDFA, PredefinedPatterns[k].pattern)
        /\ ~accepts(finalDFA, <<>>)
        /\ \A w \in SeqsUpTo(LoadChars, MaxLoadInput) :
              accepts(finalDFA, w) => \E k \in DOMAIN PredefinedPatterns :
                                         w = PredefinedPatterns[k].pattern

\* ---- the parse tree of a pattern, by the grammar's definition
\* every term of r, at every nesting depth, has at least one factor
NonEmptyTerms(r) ==
    /\ InGrammar(r)
    /\ r # <<>>
    /\ r[1] # "|"
    /\ r[Len(r)] # "|"
    /\ \A k \in 1..(Len(r) - 1) :
          <<r[k], r[k + 1]>> \notin {<<"|", "|">>, <<"(", "|">>, <<"|", ")">>, <<"(", ")">>}

\* the index of the last "|" outside parentheses, 0 if there is none
RECURSIVE lastTopLevelBar(_, _, _)
lastTopLevelBar(r, k, depth) ==
    IF k < 1 THEN 0
    ELSE IF r[k] = ")" THEN lastTopLevelBar(r, k - 1, depth + 1)
    ELSE IF r[k] = "(" THEN lastTopLevelBar(r, k - 1, depth - 1)
    ELSE IF r[k] = "|" /\ depth = 0 THEN k
    ELSE lastTopLevelBar(r, k - 1, depth)

\* the index of the "(" opening the ")" at index k
RECURSIVE openingParen(_, _, _)
openingParen(r, k, depth) ==
    IF k < 1 THEN 0
    ELSE IF r[k] = ")" THEN openingParen(r, k - 1, depth + 1)
    ELSE IF r[k] = "(" THEN (IF depth = 1 THEN k ELSE openingParen(r, k - 1, depth - 1))
    ELSE openingParen(r, k - 1, depth)

RECURSIVE postOrderRegex(_)
RECURSIVE postOrderTerm(_)

\* atom := CHAR | '(' regex ')'
postOrderAtom(a) ==
    IF a[1] = "(" THEN postOrderRegex(SubSeq(a, 2, Len(a) - 1)) ELSE a

\* factor := atom '*'?
postOrderFactor(f) ==
    IF f[Len(f)] = "*" THEN postOrderAtom(SubSeq(f, 1, Len(f) - 1)) \o <<"*">>
    ELSE postOrderAtom(f)

\* term := factor factor ..., concatenation associating to the left
postOrderTerm(t) ==
    LET e == IF t[Len(t)] = "*" THEN Len(t) - 1 ELSE Len(t)
        b == IF t[e] = ")" THEN openingParen(t, e, 0) ELSE e
    IN IF b = 1 THEN postOrderFactor(t)
       ELSE postOrderTerm(SubSeq(t, 1, b - 1))
               \o postOrderFactor(SubSeq(t, b, Len(t))) \o <<".">>

\* regex := term '|' term ..., union associating to the left
postOrderRegex(r) ==
    LET b == lastTopLevelBar(r, Len(r), 0)
    IN IF b = 0 THEN postOrderTerm(r)
       ELSE postOrderRegex(SubSeq(r, 1, b - 1))
               \o postOrderTerm(SubSeq(r, b + 1, Len(r))) \o <<"|">>

\* r with "." between adjacent a, b iff a is not "(" or "|" and b is not ")",
\* "|" or "*"
RECURSIVE withConcat(_, _)
withConcat(r, k) ==
    IF k > Len(r) THEN <<>>
    ELSE <<r[k]>>
         \o (IF k < Len(r) /\ r[k] \notin {"(", "|"} /\ r[k + 1] \notin {")", "|", "*"}
             THEN <<".">> ELSE <<>>)
         \o withConcat(r, k + 1)

\* C13: for every pattern of the grammar whose terms all have a factor,
\* infixToPostfix inserts "." exactly between the adjacent characters the rule
\* names and returns the post-order form of the parse tree ("*" over "." over
\* "|", left associative), whose stack evaluation never finds an operator
\* short of operands and ends with exactly one value.
C13_PostfixIsPostOrder ==
    (rpc # "regex" /\ NonEmptyTerms(rx)) =>
        /\ addConcat(rx, 1) = withConcat(rx, 1)
        /\ rxPostfix = postOrderRegex(rx)
        /\ postfixDepth(rxPostfix, 1, 0) = 1

\* ---- the subset construction
\* S is closed under the epsilon transitions of nfa
epsilonClosed(nfa, S) ==
    \A k \in DOMAIN nfa.transitions :
        (nfa.transitions[k].fromState \in S /\ nfa.transitions[k].symbol = Epsilon)
            => nfa.transitions[k].toState \in S

\* the subset mapped to the DFA state id
subsetOf(id) == CHOOSE S \in DOMAIN sub.dfaStateMap : sub.dfaStateMap[S] = id

\* fromNFA is in or past its worklist loop
SubsetRunning == rpc \in {"subset", "dfa", "done"}

\* C14: at every step of the worklist of fromNFA, and in the DFA it returns:
\* the subset-to-id map is injective with ids exactly 0..n-1, id 0 being the
\* epsilon closure of the NFA start state; every mapped subset is non-empty
\* and epsilon-closed; the DFA has one state per subset; every recorded
\* transition (i, c) -> j runs between created ids with subset(j) =
\* epsilonClosure(move(subset(i), c)); a DFA state is accepting iff its subset
\* holds an accepting NFA state.
C14_SubsetConstruction ==
    SubsetRunning =>
        LET M == sub.dfaStateMap
            n == Cardinality(DOMAIN M)
            ids == 0..(n - 1)
            d == sub.dfa
        IN /\ \A S, T \in DOMAIN M : M[S] = M[T] => S = T
           /\ {M[S] : S \in DOMAIN M} = ids
           /\ sub.dfaStateCounter = n
           /\ M[epsilonClosure(rxNFA, rxNFA.startState)] = 0
           /\ d.startState = 0
           /\ \A S \in DOMAIN M : S # {} /\ epsilonClosed(rxNFA, S)
           /\ Len(d.states) = n
           /\ \A k \in DOMAIN d.states : d.states[k].id = k - 1
           /\ \A e \in DOMAIN d.transitions :
                 /\ e[1] \in ids
                 /\ d.transitions[e] \in ids
                 /\ subsetOf(d.transitions[e]) =
                        epsilonClosureSet(rxNFA, move(rxNFA, subsetOf(e[1]), e[2]))
           /\ \A S \in DOMAIN M :
                 M[S] \in d.acceptingStates <=> S \cap rxNFA.acceptingStates # {}
           /\ \A k \in DOMAIN d.states :
                 d.states[k].isAccepting <=> d.states[k].id \in d.acceptingStates
           /\ rpc \in {"dfa", "done"} => rxDFA = d /\ rxDFA = fromNFA(rxNFA)

\* a returned DFA with three states and a transition back to an earlier subset
C14_Witness ==
    /\ rpc = "dfa"
    /\ Cardinality(DOMAIN sub.dfaStateMap) >= 3
    /\ \E e \in DOMAIN rxDFA.transitions : rxDFA.transitions[e] <= e[1]

\* ---- the shape of an NFA
\* the states of nfa reachable from its start state over any transitions
RECURSIVE reachableFrom(_, _)
reachableFrom(nfa, S) ==
    LET S2 == S \cup {nfa.transitions[k].toState :
                         k \in {j \in DOMAIN nfa.transitions :
                                   nfa.transitions[j].fromState \in S}}
    IN IF S2 = S THEN S ELSE reachableFrom(nfa, S2)

WellFormedNFA(nfa) ==
    LET Q == {nfa.states[k].id : k \in DOMAIN nfa.states}
    IN /\ \A j, k \in DOMAIN nfa.states : nfa.states[j].id = nfa.states[k].id => j = k
       /\ Q = 0..(Len(nfa.states) - 1)
       /\ nfa.startState \in Q
       /\ \A k \in DOMAIN nfa.transitions :
             nfa.transitions[k].fromState \in Q /\ nfa.transitions[k].toState \in Q
       /\ nfa.acceptingStates # {}
       /\ nfa.acceptingStates \subseteq reachableFrom(nfa, {nfa.startState})

\* C15: every NFA fromRegex returns is structurally well-formed (ids pairwise
\* distinct and exactly 0..|Q|-1, start state in Q, every transition between
\* ids of Q, accepting set non-empty and reachable from the start state), and
\* concatenate, union_op and kleeneStar applied to it keep it so.
C15_WellFormedNFA ==
    rpc \in {"nfa", "subset", "dfa", "done"} =>
        /\ WellFormedNFA(rxNFA)
        /\ WellFormedNFA(concatenate(rxNFA, rxNFA))
        /\ WellFormedNFA(union_op(rxNFA, rxNFA))
        /\ WellFormedNFA(kleeneStar(rxNFA))

\* ---- the epsilon closure
\* the states reachable from S over epsilon transitions only
RECURSIVE epsilonReach(_, _)
epsilonReach(nfa, S) ==
    LET S2 == S \cup {nfa.transitions[k].toState :
                         k \in {j \in DOMAIN nfa.transitions :
                                   /\ nfa.transitions[j].fromState \in S
                                   /\ nfa.transitions[j].symbol = Epsilon}}
    IN IF S2 = S THEN S ELSE epsilonReach(nfa, S2)

\* some epsilon transitions of nfa lead from state back to state
onEpsilonCycle(nfa, state) ==
    \E k \in DOMAIN nfa.transitions :
        /\ nfa.transitions[k].fromState = state
        /\ nfa.transitions[k].symbol = Epsilon
        /\ state \in epsilonReach(nfa, {nfa.transitions[k].toState})

\* what epsilonClosure(states) has returned: a superset of states, closed under
\* epsilon, holding epsilon-reachable states only (so contained in every closed
\* superset), and a fixed point of epsilonClosure
ClosureSaturated ==
    cpc = "done" =>
        /\ clo.states \subseteq clo.result
        /\ epsilonClosed(rxNFA, clo.result)
        /\ clo.result \subseteq epsilonReach(rxNFA, clo.states)
        /\ clo.result = epsilonClosureSet(rxNFA, clo.states)
        /\ epsilonClosureSet(rxNFA, clo.result) = clo.result

\* C16: closure saturation: epsilonClosure(S) contains S, is closed under
\* epsilon transitions, is the smallest such set, and is a fixed point of
\* epsilonClosure; the worklist computing it terminates, also when the
\* epsilon transitions form cycles.
C16_ClosureSaturation == []ClosureSaturated /\ <>(cpc = "done")

\* a closure returned for two states of which one lies on an epsilon cycle
C16_Witness ==
    /\ cpc = "done"
    /\ Cardinality(clo.states) = 2
    /\ \E state \in clo.states : onEpsilonCycle(rxNFA, state)
    /\ clo.result # clo.states

\* ---- rebuilding
\* the automata a fresh generator builds after the addTokenPattern calls made
\* so far
freshAutomata == buildAutomata(addTokenPatterns(EmptyMap, added, 1))

\* C17: whatever addTokenPattern and build() calls came before, a build() with
\* at least one spec leaves exactly the combined NFA and the DFA (states,
\* transitions, accepting set, labels) a fresh generator builds from the specs
\* held then, nothing of an earlier build surviving; build() again right after
\* leaves the same automata; and nothing but such a build() changes them.
C17_BuildFromScratch ==
    [][/\ out' = BuildOk =>
             /\ combinedNFA' = freshAutomata.combinedNFA
             /\ finalDFA' = freshAutomata.finalDFA
             /\ DOMAIN finalDFA'.stateToTokenType \subseteq finalDFA'.acceptingStates
       /\ (out = BuildOk /\ out' = BuildOk) => UNCHANGED <<combinedNFA, finalDFA>>
       /\ out' # BuildOk => UNCHANGED <<combinedNFA, finalDFA>>]_vars

\* a build after an earlier build was emitted and the specs were changed
C17_Witness ==
    /\ out = BuildOk
    /\ lexer # emitTables(NewDFA)
    /\ lexer # emitTables(finalDFA)
    /\ Len(added) = 2

\* ---- the menu
\* some build() so far has produced a DFA (fromNFA always creates state 0)
AnalyzerBuilt == finalDFA.states # <<>>

\* C18: options 3, 4 and 5 perform their action only if an earlier option 2
\* actually built an analyzer (a build() that produced a DFA from at least one
\* pattern); otherwise they only print "Please build the analyzer first".
C18_ActOnlyAfterBuild ==
    out \in {<<"NFA Structure">>, <<"DFA Structure">>,
             <<"C++ code generated successfully">>} => AnalyzerBuilt

\* C19: the emitted tokenize terminates on every input: when a token is
\* emitted inside the loop and the index is set back, the next token starts
\* strictly after the start of the emitted one and no later than the index the
\* scan had reached, and the loop reaches its return.
C19_TokenizeTerminates ==
    /\ [][(spc' = "loop" /\ tokens' # tokens) =>
             /\ tokenStart' > tokenStart
             /\ tokenStart' <= i + 1]_vars
    /\ <>(spc = "done")

\* the scan has returned after it set the index back by at least one position
C19_Witness ==
    /\ spc = "done"
    /\ Len(tokens) >= 1
    /\ \E n \in 1..Len(tokens) : Len(tokens[n].lexeme) < Len(input) - 1
    /\ tokenPatterns = ("T1" :> <<"a">>) @@ ("T2" :> <<"a", "b", "b">>)
    /\ input = <<"a", "b", "a", "b">>

====
